---- MODULE Spec2Model ----
(***************************************************************************)
(* A model of the Aidvantage scraper (src/aidvantage.py): the page         *)
(* classifier (Aidvantage.CurrentPage), the login / navigation state       *)
(* machine of the Aidvantage class with get_transactions and the life      *)
(* cycle of the browser session, the table extractor                       *)
(* (_get_table_from_page) and the row loop of get_account_details.  The    *)
(* browser and the site behind it are the environment: every click is      *)
(* answered by a page the site chooses.                                    *)
(***************************************************************************)
EXTENDS Integers, Sequences, FiniteSets, TLC

VARIABLES
    body,          \* visible text of the rendered page (a sequence of phrases)
    dom,           \* elements present on the rendered page
    pc,            \* position of the controller ("idle" between calls)
    stack,         \* return labels of the calls in progress
    op,            \* the caller's current (or last) call: [name, target]
    loggedIn,      \* value returned by the last _is_logged_in
    outcome,       \* "none" | "returned" | "raised" for the call in op
    exc,           \* the exception raised, "none" otherwise
    log,           \* browser interactions of the call in op, in order
    entry,         \* page identity classified when the call in op began
    prev,          \* summary of the call before the one in op
    driver,        \* the browser session: "running" | "quit"
    scope,         \* the with statement on the controller: "none" | "entered" | "TypeError"
    page_text,     \* classifier check: the body text handed to classify
    current_page,  \* classifier check: the identity classify returned
    header_elem,   \* extractor: raw header cell texts of the table
    rows,          \* extractor: body rows read so far (cell texts)
    data,          \* extractor: column name -> values appended so far
    tstate,        \* extractor: "loop" | "returned" | the exception that ended it
    loans          \* get_account_details: loan name -> LoanDetails built so far

vars == <<body, dom, pc, stack, op, loggedIn, outcome, exc, log, entry, prev,
          driver, scope,
          page_text, current_page, header_elem, rows, data, tstate, loans>>

siteVars == <<body, dom, pc, stack, op, loggedIn, outcome, exc, log, entry, prev,
              driver, scope>>
lifeVars == <<driver, scope>>
classVars == <<page_text, current_page>>
tableVars == <<header_elem, rows, data, tstate, loans>>

----------------------------------------------------------------------------
(* Bounds of the model. *)

\* longest body text handed to the classifier, in phrases
MaxText == 3
\* most times in a row the site answers a click with the disclaimer, per call
MaxAccept == 2
\* most header cells of a table
MaxCols == 2
\* most cells of a body row
MaxCells == 3
\* most body rows of a table
MaxRows == 2
\* most cells a row of the loan-details table has beyond the fields of LoanDetails
MaxExtra == 1

----------------------------------------------------------------------------
(* Aidvantage.CurrentPage: the enumeration and its PageDetail values. *)

None == "<None>"

\* The members in definition order, the order "for page_choice in CurrentPage" scans.
CurrentPage ==
    << "HOME_PAGE", "GOV_DISCLAIMER", "LOGIN_PAGE", "ADDITIONAL_INFO",
       "ACCOUNT_SUMMARY", "ACCOUNT_HISTORY", "LOAN_DETAILS", "UNKNOWN", "EXPIRED" >>

Identities == { CurrentPage[i] : i \in 1..Len(CurrentPage) }

\* PageDetail.matching_text, as a sequence of phrases of the visible text.
matching_text(p) ==
    CASE p = "HOME_PAGE"       -> << "Welcome to Aidvantage!" >>
      [] p = "GOV_DISCLAIMER"  -> << "You are accessing a U.S. Federal Government computer system" >>
      [] p = "LOGIN_PAGE"      -> << "Forgot User ID", "Forgot Password" >>
      [] p = "ADDITIONAL_INFO" -> << "Please provide the information below so we can verify your account" >>
      [] p = "ACCOUNT_SUMMARY" -> << "This is an attempt to collect a debt and any information obtained will be used for that purpose" >>
      [] p = "ACCOUNT_HISTORY" -> << "The information contained on this page is current as of the day the information is requested" >>
      [] p = "LOAN_DETAILS"    -> << "All Loan Details" >>
      [] p = "UNKNOWN"         -> << "Not a known page type." >>
      [] p = "EXPIRED"         -> << "Your session has expired." >>

\* PageDetail.link_text.
link_text(p) ==
    CASE p = "HOME_PAGE"       -> ""
      [] p = "GOV_DISCLAIMER"  -> None
      [] p = "LOGIN_PAGE"      -> "Log in"
      [] p = "ADDITIONAL_INFO" -> None
      [] p = "ACCOUNT_SUMMARY" -> "Account Summary"
      [] p = "ACCOUNT_HISTORY" -> "Account History"
      [] p = "LOAN_DETAILS"    -> "Loan Details"
      [] p = "UNKNOWN"         -> None
      [] p = "EXPIRED"         -> None

\* Python's "needle in haystack" on strings: needle occurs contiguously.
Contains(haystack, needle) ==
    \E s \in 0..(Len(haystack) - Len(needle)) :
        \A k \in 1..Len(needle) : haystack[s + k] = needle[k]

Min(S) == CHOOSE x \in S : \A y \in S : x <= y
Max(S) == CHOOSE x \in S : \A y \in S : x >= y

\* The loop of get_current_page from member i on.
RECURSIVE Scan(_, _)
Scan(text, i) ==
    IF i > Len(CurrentPage) THEN "UNKNOWN"
    ELSE IF Contains(text, matching_text(CurrentPage[i])) THEN CurrentPage[i]
    ELSE Scan(text, i + 1)

\* The same loop keeping the last match instead of returning the first.
RECURSIVE ScanLast(_, _, _)
ScanLast(text, i, found) ==
    IF i > Len(CurrentPage) THEN found
    ELSE IF Contains(text, matching_text(CurrentPage[i]))
         THEN ScanLast(text, i + 1, CurrentPage[i])
    ELSE ScanLast(text, i + 1, found)

get_current_page_last(text) == ScanLast(text, 1, "UNKNOWN")

\* CurrentPage.get_current_page: the first member, in definition order, whose
\* matching_text is in the body text; UNKNOWN when the scan finds none.
get_current_page(text) == Scan(text, 1)

----------------------------------------------------------------------------
(* The classifier on arbitrary body texts. *)

Phrases ==
    UNION { { matching_text(p)[k] : k \in 1..Len(matching_text(p)) } : p \in Identities }
    \cup { "Contact Us" }

Texts == UNION { [1..n -> Phrases] : n \in 0..MaxText }

\* get_current_page(driver) on the rendered text.
classify ==
    /\ current_page = "none"
    /\ current_page' = get_current_page(page_text)
    /\ UNCHANGED <<page_text, siteVars, tableVars>>

----------------------------------------------------------------------------
(* The site, as far as the controller looks at it. *)

Link(t) == [tag |-> "a", key |-> t]
Id(i)   == [tag |-> "id", key |-> i]
Seen(p) == [tag |-> "page", key |-> p]

Event(k, e) == [kind |-> k, elem |-> e]

\* The link labels and element ids _is_logged_in falls back on.
HeuristicElems ==
    { Link("Log in"), Link("Account Summary"), Id("user-id"), Id("account-number") }

\* The elements the controller's code looks for on each page.
ExpectedDom(p) ==
    CASE p = "HOME_PAGE"       -> { Link("Log in") }
      [] p = "GOV_DISCLAIMER"  -> { Id("Accept") }
      [] p = "LOGIN_PAGE"      -> { Id("user-id"), Id("password"), Id("Submit") }
      [] p = "ADDITIONAL_INFO" -> { Id("account-number"), Id("lblSSN1"), Id("dob1"), Id("Submit") }
      [] p = "ACCOUNT_SUMMARY" -> { Link("Account Summary"), Link("Account History"),
                                    Link("Loan Details"), Id("divRecentPayments") }
      [] p = "ACCOUNT_HISTORY" -> { Link("Account Summary"), Link("Account History"),
                                    Link("Loan Details"), Id("SelctedHistType"),
                                    Id("ddl_Loan"), Id("SelectedDateRange"),
                                    Id("tblByLoans") }
      [] p = "LOAN_DETAILS"    -> { Link("Account Summary"), Link("Account History"),
                                    Link("Loan Details"), Id("tblAllLoanDetails") }
      [] p = "EXPIRED"         -> { Link("Log in") }
      [] p = "UNKNOWN"         -> {}

\* The visible text of a page of identity p: its distinguishing text after
\* some other text; a page of no known kind shows only the other text.
PageText(p) ==
    IF p = "UNKNOWN" THEN << "Contact Us" >> ELSE << "Contact Us" >> \o matching_text(p)

\* The disclaimer shown on a page that keeps its "Log in" link.
DisclaimerWithLinks ==
    [body |-> PageText("GOV_DISCLAIMER"),
     dom  |-> ExpectedDom("GOV_DISCLAIMER") \cup ExpectedDom("EXPIRED")]

\* The pages the site can show: each known page with the elements the code
\* expects or with none of them (the markup changed), the disclaimer with
\* the links of the page around it, and pages of no known kind with any of
\* the elements the login heuristics probe.
SitePages ==
    UNION { { [body |-> PageText(p), dom |-> d] : d \in { ExpectedDom(p), {} } } :
              p \in Identities \ {"UNKNOWN"} } \cup
    { DisclaimerWithLinks } \cup
    { [body |-> PageText("UNKNOWN"), dom |-> d] : d \in SUBSET HeuristicElems }

\* find_element(By.PARTIAL_LINK_TEXT, label): some link whose text has the
\* label in it.  HOME_PAGE's label is the empty string, which every link
\* text contains; a driver may as well reject it, so both outcomes are kept.
LinkLookups(d, label) ==
    IF label = ""
      THEN { "missing" } \cup (IF \E e \in d : e.tag = "a" THEN { "found" } ELSE {})
      ELSE IF Link(label) \in d THEN { "found" } ELSE { "missing" }

Count(l, P(_)) == Cardinality({ i \in 1..Len(l) : P(l[i]) })

IsNavClick(ev) == ev.kind = "click" /\ ev.elem.tag = "a"
IsAccept(ev)   == ev.kind = "click" /\ ev.elem = Id("Accept")
IsSubmit(ev)   == ev.kind = "click" /\ ev.elem = Id("Submit")

NavClicks(l) == Count(l, IsNavClick)
Accepts(l)   == Count(l, IsAccept)

\* The pages the site may answer a click with; it shows the disclaimer at
\* most MaxAccept times after the clicks of one call.
OtherPages == { pg \in SitePages : get_current_page(pg.body) # "GOV_DISCLAIMER" }

Responses(l) == IF Accepts(l) < MaxAccept THEN SitePages ELSE OtherPages

----------------------------------------------------------------------------
(* Control: calls, returns and exceptions. *)

NoCall == [name |-> "none", target |-> None]
NoPrev == [name |-> "none", target |-> None, clicks |-> 0]

\* What the next call remembers of a call: a go_to_page that returned, with
\* its page and the number of links it clicked; nothing of any other call.
Summary ==
    IF op.name = "go_to_page" /\ outcome = "returned"
      THEN [name |-> op.name, target |-> op.target, clicks |-> NavClicks(log)]
      ELSE NoPrev

\* An exception that is noted while the method goes on where it was.
Raise_and_go_on(e) ==
    /\ pc' = pc
    /\ stack' = stack
    /\ outcome' = "raised"
    /\ exc' = e

\* raise: the exception leaves every frame up to the caller.
Raise(e) ==
    /\ pc' = "idle"
    /\ stack' = << >>
    /\ outcome' = "raised"
    /\ exc' = e

Return ==
    /\ exc' = exc
    /\ IF stack = << >>
         THEN pc' = "idle" /\ stack' = stack /\ outcome' = "returned"
         ELSE pc' = Head(stack) /\ stack' = Tail(stack) /\ outcome' = outcome

Goto(label) == pc' = label /\ stack' = stack /\ outcome' = outcome /\ exc' = exc

Call(label, ret) ==
    pc' = label /\ stack' = << ret >> \o stack /\ outcome' = outcome /\ exc' = exc

\* The caller starts a new call on the controller.
Begin(name, target, label, rets) ==
    /\ pc = "idle"
    /\ driver = "running"
    /\ scope # "TypeError"
    /\ op' = [name |-> name, target |-> target]
    /\ prev' = Summary
    /\ entry' = get_current_page(body)
    /\ log' = << >>
    /\ pc' = label
    /\ stack' = rets
    /\ outcome' = "none"
    /\ exc' = "none"
    /\ loggedIn' = FALSE
    /\ UNCHANGED <<body, dom>>

\* The page argument of the go_to_page in progress: LOGIN_PAGE inside
\* _require_login, ACCOUNT_SUMMARY inside get_transactions, the caller's
\* argument otherwise.
Target ==
    IF stack # << >> /\ Head(stack) = "require_login_fill" THEN "LOGIN_PAGE"
    ELSE IF stack # << >> /\ Head(stack) = "get_transactions_navigated" THEN "ACCOUNT_SUMMARY"
    ELSE op.target

----------------------------------------------------------------------------
(* Aidvantage._is_logged_in *)

\* _is_logged_in with ACCOUNT_SUMMARY taken for a page without login.
IdentityRule_summary_logged_out(cur) ==
    IF cur \in {"EXPIRED", "LOGIN_PAGE", "HOME_PAGE", "ACCOUNT_SUMMARY"} THEN "False"
    ELSE IF cur \in {"ACCOUNT_HISTORY", "ADDITIONAL_INFO", "LOAN_DETAILS"} THEN "True"
    ELSE IF cur \in {"GOV_DISCLAIMER", "ADDITIONAL_INFO"} THEN "filler"
    ELSE "heuristics"

\* _is_logged_in without its third membership test.
IdentityRule_no_filler(cur) ==
    IF cur \in {"EXPIRED", "LOGIN_PAGE", "HOME_PAGE"} THEN "False"
    ELSE IF cur \in {"ACCOUNT_HISTORY", "ACCOUNT_SUMMARY", "ADDITIONAL_INFO", "LOAN_DETAILS"}
         THEN "True"
    ELSE "heuristics"

\* The three membership tests on the classified page, in the order of the code:
\* not logged in, logged in, filler page (absorbed, then logged in); any other
\* identity falls through to the link and element heuristics.
IdentityRule(cur) ==
    IF cur \in {"EXPIRED", "LOGIN_PAGE", "HOME_PAGE"} THEN "False"
    ELSE IF cur \in {"ACCOUNT_HISTORY", "ACCOUNT_SUMMARY", "ADDITIONAL_INFO", "LOAN_DETAILS"}
         THEN "True"
    ELSE IF cur \in {"GOV_DISCLAIMER", "ADDITIONAL_INFO"} THEN "filler"
    ELSE "heuristics"

\* The heuristics with the account summary link tried before the login link.
HeuristicOrder_summary_first ==
    << [elem |-> Link("Account Summary"), answer |-> "True"],
       [elem |-> Link("Log in"), answer |-> "False"],
       [elem |-> Id("user-id"), answer |-> "False"],
       [elem |-> Id("account-number"), answer |-> "False"] >>

\* The heuristics in the order the code tries them, with what each one found returns.
HeuristicOrder ==
    << [elem |-> Link("Log in"), answer |-> "False"],
       [elem |-> Link("Account Summary"), answer |-> "True"],
       [elem |-> Id("user-id"), answer |-> "False"],
       [elem |-> Id("account-number"), answer |-> "False"] >>

\* The first heuristic whose element is on the page (0: none is).
FirstFound(d) ==
    LET found == { i \in 1..Len(HeuristicOrder) : HeuristicOrder[i].elem \in d }
    IN  IF found = {} THEN 0 ELSE Min(found)

\* The lookups the heuristics make on a page, in order.
Probes(d) ==
    LET n == IF FirstFound(d) = 0 THEN Len(HeuristicOrder) ELSE FirstFound(d)
    IN  [ i \in 1..n |-> Event("find", HeuristicOrder[i].elem) ]

\* What the heuristics return ("raise": ValueError("Unknown login state.")).
HeuristicAnswer(d) ==
    IF FirstFound(d) = 0 THEN "raise" ELSE HeuristicOrder[FirstFound(d)].answer

is_logged_in ==
    /\ pc = "is_logged_in"
    /\ LET cur  == get_current_page(body)
           rule == IdentityRule(cur)
           seen == Append(log, Event("is_logged_in", Seen(cur)))
       IN  CASE rule = "False" ->
                  /\ log' = seen /\ loggedIn' = FALSE /\ Return
             [] rule = "True" ->
                  /\ log' = seen /\ loggedIn' = TRUE /\ Return
             [] rule = "filler" ->
                  /\ log' = seen /\ loggedIn' = loggedIn
                  /\ Call("do_filler_steps", "is_logged_in_filled")
             [] rule = "heuristics" ->
                  /\ log' = seen \o Probes(dom)
                  /\ CASE HeuristicAnswer(dom) = "False" -> loggedIn' = FALSE /\ Return
                       [] HeuristicAnswer(dom) = "True"  -> loggedIn' = TRUE /\ Return
                       [] HeuristicAnswer(dom) = "raise" ->
                            loggedIn' = loggedIn /\ Raise("ValueError: Unknown login state.")
    /\ UNCHANGED <<body, dom, op, entry, prev,
                 lifeVars, classVars, tableVars>>

\* "return True" after the filler steps of _is_logged_in.
is_logged_in_filled ==
    /\ pc = "is_logged_in_filled"
    /\ loggedIn' = TRUE
    /\ Return
    /\ UNCHANGED <<body, dom, op, log, entry, prev,
                 lifeVars, classVars, tableVars>>

----------------------------------------------------------------------------
(* Aidvantage._do_filler_steps and _accept_gov_comp_access *)

\* _do_filler_steps with an empty "choices" dictionary, and with an entry
\* for every page.
FillerChoices_none == { }

FillerChoices_every_page == Identities

\* The keys of the "choices" dictionary.
FillerChoices == { "GOV_DISCLAIMER" }

do_filler_steps ==
    /\ pc = "do_filler_steps"
    /\ IF get_current_page(body) \in FillerChoices
         THEN IF Id("Accept") \in dom
                THEN /\ log' = Append(log, Event("click", Id("Accept")))
                     /\ \E pg \in Responses(log') : body' = pg.body /\ dom' = pg.dom
                     /\ Goto("do_filler_steps")
                ELSE /\ Raise("NoSuchElementException")
                     /\ UNCHANGED <<body, dom, log>>
         ELSE /\ Return
              /\ UNCHANGED <<body, dom, log>>
    /\ UNCHANGED <<op, loggedIn, entry, prev,
                 lifeVars, classVars, tableVars>>

----------------------------------------------------------------------------
(* Aidvantage.CurrentPage.go_to_page and Aidvantage.go_to_page *)

\* Two slips of go_to_page: no early return, and no check of the link text.
GoToPageStep_always_click(cur, page) ==
    IF link_text(page) = None THEN "raise" ELSE "click"

GoToPageStep_click_first(cur, page) ==
    IF cur = page THEN "return" ELSE "click"

\* CurrentPage.go_to_page up to the lookup of the link: leave when already
\* there, fail when the page has no link text, click the link otherwise.
GoToPageStep(cur, page) ==
    IF cur = page THEN "return"
    ELSE IF link_text(page) = None THEN "raise"
    ELSE "click"

LinkLabel(page) == IF link_text(page) = None THEN "" ELSE link_text(page)

go_to_page ==
    /\ pc = "go_to_page"
    /\ LET step == GoToPageStep(get_current_page(body), Target)
       IN  CASE step = "return" ->
                  /\ Goto("do_filler_steps")
                  /\ UNCHANGED <<body, dom, log>>
             [] step = "raise" ->
                  /\ Raise("ValueError: no link text")
                  /\ UNCHANGED <<body, dom, log>>
             [] step = "click" ->
                  \E found \in LinkLookups(dom, LinkLabel(Target)) :
                      IF found = "found"
                        THEN /\ log' = Append(log, Event("click", Link(LinkLabel(Target))))
                             /\ \E pg \in Responses(log') : body' = pg.body /\ dom' = pg.dom
                             /\ Goto("do_filler_steps")
                        ELSE /\ Raise("NoSuchElementException")
                             /\ UNCHANGED <<body, dom, log>>
    /\ UNCHANGED <<op, loggedIn, entry, prev,
                 lifeVars, classVars, tableVars>>

----------------------------------------------------------------------------
(* Aidvantage._require_login *)

\* find_element + send_keys on each field in turn, then find_element + click
\* on the button, after the events in l; the first missing element raises and
\* ends the call.
FillForm(l, fields, button, next) ==
    LET all     == fields \o << button >>
        missing == { i \in 1..Len(all) : Id(all[i]) \notin dom }
        typed(n) == [ i \in 1..n |-> Event("send_keys", Id(fields[i])) ]
    IN  IF missing = {}
          THEN /\ log' = Append(l \o typed(Len(fields)), Event("click", Id(button)))
               /\ \E pg \in Responses(log') : body' = pg.body /\ dom' = pg.dom
               /\ next
          ELSE /\ log' = l \o typed(Min(missing) - 1)
               /\ Raise("NoSuchElementException")
               /\ UNCHANGED <<body, dom>>

\* if self._is_logged_in(): return; else go to the login page.
require_login_checked ==
    /\ pc = "require_login_checked"
    /\ IF loggedIn THEN Return ELSE Call("go_to_page", "require_login_fill")
    /\ UNCHANGED <<body, dom, op, loggedIn, log, entry, prev,
                 lifeVars, classVars, tableVars>>

\* Fill in user/pass and click login.
require_login_fill ==
    /\ pc = "require_login_fill"
    /\ FillForm(log, << "user-id", "password" >>, "Submit", Goto("require_login_submitted"))
    /\ UNCHANGED <<op, loggedIn, entry, prev,
                 lifeVars, classVars, tableVars>>

\* The test after the first submit, never true.
NeedsAdditionalInfo_never(cur) == FALSE

\* get_current_page(self.driver) is CurrentPage.ADDITIONAL_INFO
NeedsAdditionalInfo(cur) == cur = "ADDITIONAL_INFO"

\* The page is classified again after the submit; the additional-information
\* form is filled in when the site asks for it; then the second _is_logged_in.
require_login_submitted ==
    /\ pc = "require_login_submitted"
    /\ LET cur  == get_current_page(body)
           seen == Append(log, Event("get_current_page", Seen(cur)))
       IN  IF NeedsAdditionalInfo(cur)
             THEN FillForm(seen, << "lblSSN1", "dob1" >>, "Submit",
                                Call("is_logged_in", "require_login_final"))
             ELSE /\ log' = seen
                  /\ Call("is_logged_in", "require_login_final")
                  /\ UNCHANGED <<body, dom>>
    /\ UNCHANGED <<op, loggedIn, entry, prev,
                 lifeVars, classVars, tableVars>>

\* Must be logged in by this point.
require_login_final ==
    /\ pc = "require_login_final"
    /\ IF loggedIn THEN Return ELSE Raise("RuntimeError")
    /\ UNCHANGED <<body, dom, op, loggedIn, log, entry, prev,
                 lifeVars, classVars, tableVars>>

----------------------------------------------------------------------------
(* Aidvantage.get_transactions *)

\* The loan names the caller asks for.
LoanNames == { "1-01", "1-02" }

\* The drop-downs and the visible texts chosen in them, in the order of the for loop.
Selections(loan) ==
    << [id |-> "SelctedHistType", text |-> "By Loan"],
       [id |-> "ddl_Loan", text |-> loan],
       [id |-> "SelectedDateRange", text |-> "Life of Loan"] >>

\* An option of a drop-down, by its visible text.
Option(i, t) == [tag |-> i, key |-> t]

IsSelect(ev) == ev.kind = "select"

\* The test that sends get_transactions through the login and the account
\* summary, made on every page.
NeedsNavigation_always(cur) == TRUE

\* get_current_page(self.driver) is not CurrentPage.ACCOUNT_HISTORY
NeedsNavigation(cur) == cur # "ACCOUNT_HISTORY"

\* "Get to the right page": straight to the drop-downs on the account
\* history, through _require_login otherwise.
get_transactions ==
    /\ pc = "get_transactions"
    /\ IF NeedsNavigation(get_current_page(body))
         THEN /\ pc' = "is_logged_in"
              /\ stack' = << "require_login_checked", "get_transactions_logged_in" >> \o stack
              /\ outcome' = outcome /\ exc' = exc
         ELSE Goto("get_transactions_select")
    /\ UNCHANGED <<body, dom, op, loggedIn, log, entry, prev,
                   lifeVars, classVars, tableVars>>

\* self.go_to_page(Aidvantage.CurrentPage.ACCOUNT_SUMMARY)
get_transactions_logged_in ==
    /\ pc = "get_transactions_logged_in"
    /\ Call("go_to_page", "get_transactions_navigated")
    /\ UNCHANGED <<body, dom, op, loggedIn, log, entry, prev,
                   lifeVars, classVars, tableVars>>

\* Find the recent payments section, then click its account history link.
get_transactions_navigated ==
    /\ pc = "get_transactions_navigated"
    /\ IF Id("divRecentPayments") \notin dom
         THEN /\ Raise("NoSuchElementException")
              /\ UNCHANGED <<body, dom, log>>
       ELSE IF Link("Account History") \notin dom
         THEN /\ log' = Append(log, Event("find_element", Id("divRecentPayments")))
              /\ Raise("NoSuchElementException")
              /\ UNCHANGED <<body, dom>>
       ELSE /\ log' = log \o << Event("find_element", Id("divRecentPayments")),
                                 Event("click", Link("Account History")) >>
            /\ \E pg \in Responses(log') : body' = pg.body /\ dom' = pg.dom
            /\ Goto("get_transactions_select")
    /\ UNCHANGED <<op, loggedIn, entry, prev,
                   lifeVars, classVars, tableVars>>

\* One pass of the for loop over the drop-downs: find_element, wait until
\* the element is visible (TimeoutException when it does not get visible),
\* select the option by its text (NoSuchElementException when there is none).
get_transactions_select ==
    /\ pc = "get_transactions_select"
    /\ LET k     == Count(log, IsSelect) + 1
           sel   == Selections(op.target)[k]
           found == Append(log, Event("find_element", Id(sel.id)))
           shown == Append(found, Event("wait", Id(sel.id)))
       IN  IF Id(sel.id) \notin dom
             THEN /\ Raise("NoSuchElementException")
                  /\ log' = log
           ELSE \E visible \in BOOLEAN, listed \in BOOLEAN :
                  IF ~visible
                    THEN Raise("TimeoutException") /\ log' = found
                  ELSE IF ~listed
                    THEN Raise("NoSuchElementException") /\ log' = shown
                  ELSE /\ log' = Append(shown, Event("select", Option(sel.id, sel.text)))
                       /\ IF k < Len(Selections(op.target))
                            THEN Goto("get_transactions_select")
                            ELSE Goto("get_transactions_table")
    /\ UNCHANGED <<body, dom, op, loggedIn, entry, prev,
                   lifeVars, classVars, tableVars>>

\* return self._get_table_from_page("tblByLoans"): the table is looked up and
\* read; the extractor returns the table or raises on a row it cannot align.
get_transactions_table ==
    /\ pc = "get_transactions_table"
    /\ IF Id("tblByLoans") \notin dom
         THEN /\ Raise("NoSuchElementException")
              /\ log' = log
         ELSE /\ log' = Append(log, Event("read_table", Id("tblByLoans")))
              /\ \E result \in { "returned", "ValueError", "AssertionError" } :
                    IF result = "returned" THEN Return ELSE Raise(result)
    /\ UNCHANGED <<body, dom, op, loggedIn, entry, prev,
                   lifeVars, classVars, tableVars>>

----------------------------------------------------------------------------
(* The caller. *)

\* av.get_transactions(loan)
call_get_transactions ==
    /\ \E loan \in LoanNames : Begin("get_transactions", loan, "get_transactions", << >>)
    /\ UNCHANGED <<lifeVars, classVars, tableVars>>

\* av._require_login()
call_require_login ==
    /\ Begin("require_login", None, "is_logged_in", << "require_login_checked" >>)
    /\ UNCHANGED <<lifeVars, classVars, tableVars>>

\* av.go_to_page(page), for any member of the enumeration
call_go_to_page ==
    /\ \E page \in Identities : Begin("go_to_page", page, "go_to_page", << >>)
    /\ UNCHANGED <<lifeVars, classVars, tableVars>>

\* The methods defined in class Aidvantage.
Methods ==
    { "__init__", "__del__", "go_to_page", "get_account_balances", "get_transactions",
      "get_account_details", "_is_logged_in", "_require_login", "_do_filler_steps",
      "_accept_gov_comp_access", "_get_table_from_page", "_download_as_text" }

\* "with Aidvantage(...) as av:" right after the construction: the statement
\* looks up __enter__ and __exit__ on the class and raises TypeError
\* (AttributeError before Python 3.11) when one is missing; the body then
\* never runs and av is never bound.
with_statement ==
    /\ pc = "idle"
    /\ op = NoCall
    /\ driver = "running"
    /\ scope = "none"
    /\ scope' = IF { "__enter__", "__exit__" } \subseteq Methods THEN "entered" ELSE "TypeError"
    /\ UNCHANGED <<body, dom, pc, stack, op, loggedIn, outcome, exc, log, entry, prev,
                   driver, classVars, tableVars>>

\* __del__, when the last reference to the controller goes: driver.quit().
del ==
    /\ pc = "idle"
    /\ driver = "running"
    /\ driver' = "quit"
    /\ UNCHANGED <<body, dom, pc, stack, op, loggedIn, outcome, exc, log, entry, prev,
                   scope, classVars, tableVars>>

ClassIdle == page_text = << >> /\ current_page = "none"
TableIdle ==
    /\ header_elem = << >> /\ rows = << >> /\ data = << >> /\ tstate = "none"
    /\ loans = << >>

\* The controller between calls, on a given page.
Parked(pg) ==
    /\ body = pg.body /\ dom = pg.dom
    /\ pc = "idle"
    /\ stack = << >>
    /\ op = NoCall
    /\ loggedIn = FALSE
    /\ outcome = "none"
    /\ exc = "none"
    /\ log = << >>
    /\ entry = "none"
    /\ prev = NoPrev
    /\ driver = "running"
    /\ scope = "none"

HomePage == [body |-> PageText("HOME_PAGE"), dom |-> ExpectedDom("HOME_PAGE")]

\* After __init__: the browser shows whatever the site answers the first get with.
Init ==
    /\ \E pg \in SitePages : Parked(pg)
    /\ ClassIdle
    /\ TableIdle

Next ==
    \/ call_require_login
    \/ call_go_to_page
    \/ with_statement
    \/ del
    \/ is_logged_in
    \/ is_logged_in_filled
    \/ do_filler_steps
    \/ go_to_page
    \/ require_login_checked
    \/ require_login_fill
    \/ require_login_submitted
    \/ require_login_final

Spec == Init /\ [][Next]_vars

\* The same with a controller that goes on: a filler loop that can take its
\* next pass takes it (the code is sequential and the driver answers).
SpecLive == Init /\ [][Next]_vars /\ WF_vars(do_filler_steps)

\* The caller asks for transaction histories only.
NextHistory ==
    \/ call_get_transactions
    \/ get_transactions
    \/ get_transactions_logged_in
    \/ get_transactions_navigated
    \/ get_transactions_select
    \/ get_transactions_table
    \/ is_logged_in
    \/ is_logged_in_filled
    \/ do_filler_steps
    \/ go_to_page
    \/ require_login_checked
    \/ require_login_fill
    \/ require_login_submitted
    \/ require_login_final

SpecHistory == Init /\ [][NextHistory]_vars

\* The classifier alone, on every body text up to MaxText phrases.
InitClassify ==
    /\ Parked(HomePage)
    /\ page_text \in Texts
    /\ current_page = "none"
    /\ TableIdle

NextClassify == classify

SpecClassify == InitClassify /\ [][NextClassify]_vars

----------------------------------------------------------------------------
(* Aidvantage._get_table_from_page *)

\* Header cell texts as the site renders them (characters), and body cell texts.
HeaderTexts == { << "A" >>, << "B", " " >> }
CellTexts == { "", "x" }

HeaderRows == UNION { [1..n -> HeaderTexts] : n \in 0..MaxCols }
BodyRows == UNION { [1..n -> CellTexts] : n \in 0..MaxCells }

\* item.text.replace(' ', '')
StripSpaces(text) == SelectSeq(text, LAMBDA c : c # " ")

\* header_list: the header texts with the spaces removed, in order.
header_list == [ i \in 1..Len(header_elem) |-> StripSpaces(header_elem[i]) ]

ColumnNames(hl) == { hl[i] : i \in 1..Len(hl) }

\* data = {header: [] for header in header_list}
EmptyData(hl) == [ h \in ColumnNames(hl) |-> << >> ]

\* The alignment loop with the last cell tried before the first.
RECURSIVE AlignRow_back_first(_, _)
AlignRow_back_first(data_list, n) ==
    IF Len(data_list) > n
      THEN IF data_list[Len(data_list)] = ""
             THEN AlignRow_back_first(SubSeq(data_list, 1, Len(data_list) - 1), n)
           ELSE IF data_list[1] = ""
             THEN AlignRow_back_first(Tail(data_list), n)
           ELSE [error |-> TRUE, cells |-> data_list]
      ELSE [error |-> FALSE, cells |-> data_list]

\* The while loop that aligns a row to n columns: pop(0) when the first cell
\* is '', else pop(-1) when the last one is, else ValueError.
RECURSIVE AlignRow(_, _)
AlignRow(data_list, n) ==
    IF Len(data_list) > n
      THEN IF data_list[1] = ""
             THEN AlignRow(Tail(data_list), n)
           ELSE IF data_list[Len(data_list)] = ""
             THEN AlignRow(SubSeq(data_list, 1, Len(data_list) - 1), n)
           ELSE [error |-> TRUE, cells |-> data_list]
      ELSE [error |-> FALSE, cells |-> data_list]

\* dict(zip(header_list, data_list)): zip stops at the shorter of the two,
\* and a name that occurs again takes the later cell.
ZipDict(hl, data_list) ==
    LET m == IF Len(hl) < Len(data_list) THEN Len(hl) ELSE Len(data_list)
    IN  [ h \in { hl[i] : i \in 1..m } |->
            data_list[Max({ i \in 1..m : hl[i] = h })] ]

\* Two slips of the loop body: no spacer rows, and no length check.
RowStep_no_skip(cells, n) ==
    IF Len(cells) # n THEN "assert" ELSE "append"

RowStep_no_assert(cells, n) ==
    IF cells = << "" >> THEN "continue" ELSE "append"

\* What the loop body does with an aligned row: skip [''], fail the
\* assertion when the length is not the header's, append otherwise.
RowStep(cells, n) ==
    IF cells = << "" >> THEN "continue"
    ELSE IF Len(cells) # n THEN "assert"
    ELSE "append"

\* The same with the value put in front of the column.
AppendRow_prepend(d, data_dict) ==
    [ k \in DOMAIN d |->
        IF k \in DOMAIN data_dict THEN << data_dict[k] >> \o d[k] ELSE d[k] ]

\* for key, value in data_dict.items(): data[key].append(value)
AppendRow(d, data_dict) ==
    [ k \in DOMAIN d |-> IF k \in DOMAIN data_dict THEN Append(d[k], data_dict[k]) ELSE d[k] ]

\* One pass of "for row in rows" on the next row of the table body.
next_row ==
    /\ tstate = "loop"
    /\ Len(rows) < MaxRows
    /\ \E data_list \in BodyRows :
          LET n       == Len(header_list)
              aligned == AlignRow(data_list, n)
              step    == RowStep(aligned.cells, n)
          IN  /\ rows' = Append(rows, data_list)
              /\ IF aligned.error
                   THEN tstate' = "ValueError" /\ data' = data
                 ELSE IF step = "continue"
                   THEN tstate' = "loop" /\ data' = data
                 ELSE IF step = "assert"
                   THEN tstate' = "AssertionError" /\ data' = data
                 ELSE /\ tstate' = "loop"
                      /\ data' = AppendRow(data, ZipDict(header_list, aligned.cells))
    /\ UNCHANGED <<header_elem, loans, siteVars, classVars>>

\* The body has no more rows: return DataFrame(data).
end_of_rows ==
    /\ tstate = "loop"
    /\ tstate' = "returned"
    /\ UNCHANGED <<header_elem, rows, data, loans, siteVars, classVars>>

\* The extractor alone, on every table within the bounds.
InitTable ==
    /\ Parked(HomePage)
    /\ ClassIdle
    /\ header_elem \in HeaderRows
    /\ rows = << >>
    /\ data = EmptyData(header_list)
    /\ tstate = "loop"
    /\ loans = << >>

NextTable ==
    \/ next_row
    \/ end_of_rows

SpecTable == InitTable /\ [][NextTable]_vars

----------------------------------------------------------------------------
(* LoanDetails and the row loop of Aidvantage.get_account_details *)

\* The aliases of the fields of LoanDetails: the header texts without spaces.
Loan           == << "Loan" >>
CurrentBalance == << "Current", "Balance" >>
InterestRate   == << "Interest", "Rate" >>
DueDate        == << "Due", "Date" >>

Aliases == { Loan, CurrentBalance, InterestRate, DueDate }

\* Headers of the loan-details table as the site renders them: the four
\* columns, the four in another order, one column missing, one column more.
LoanHeaders ==
    { << << "Loan" >>, << "Current", " ", "Balance" >>,
         << "Interest", " ", "Rate" >>, << "Due", " ", "Date" >> >>,
      << << "Loan" >>, << "Due", " ", "Date" >>,
         << "Current", " ", "Balance" >>, << "Interest", " ", "Rate" >> >>,
      << << "Loan" >>, << "Current", " ", "Balance" >>,
         << "Interest", " ", "Rate" >> >>,
      << << "Loan" >>, << "Current", " ", "Balance" >>,
         << "Interest", " ", "Rate" >>, << "Due", " ", "Date" >>, << "Status" >> >> }

\* Cell texts of the loan-details table (characters): an amount and a rate.
LoanCellTexts == { << "$", "5" >>, << "5", "%" >> }

LoanRows == UNION { [1..n -> LoanCellTexts] : n \in 0..(Cardinality(Aliases) + MaxExtra) }

\* str.lstrip(c) and str.rstrip(c)
RECURSIVE LStrip(_, _)
LStrip(text, c) ==
    IF text # << >> /\ Head(text) = c THEN LStrip(Tail(text), c) ELSE text

RECURSIVE RStrip(_, _)
RStrip(text, c) ==
    IF text # << >> /\ text[Len(text)] = c
      THEN RStrip(SubSeq(text, 1, Len(text) - 1), c)
      ELSE text

\* str.replace(c, '')
Remove(text, c) == SelectSeq(text, LAMBDA x : x # c)

Digits == << "0", "1", "2", "3", "4", "5", "6", "7", "8", "9" >>

IsDigit(c) == \E i \in 1..Len(Digits) : Digits[i] = c

\* Decimal(s) and float(s) accept s when it is a number; of the texts made
\* of the characters above these are the non-empty digit strings.
IsNumber(text) == text # << >> /\ \A i \in 1..Len(text) : IsDigit(text[i])

RECURSIVE Number(_)
Number(text) ==
    IF text = << >> THEN 0
    ELSE 10 * Number(SubSeq(text, 1, Len(text) - 1))
           + (CHOOSE i \in 1..Len(Digits) : Digits[i] = text[Len(text)]) - 1

\* balance_to_float: Decimal(balance.lstrip("$").replace(',', ''))
balance_to_float(balance) ==
    LET s == Remove(LStrip(balance, "$"), ",")
    IN  IF IsNumber(s) THEN [error |-> "none", value |-> << Number(s), 1 >>]
        ELSE [error |-> "InvalidOperation", value |-> << 0, 1 >>]

\* apr_to_float: Decimal(float(apr.rstrip("%")) / 100), as numerator and denominator
apr_to_float(apr) ==
    LET s == RStrip(apr, "%")
    IN  IF IsNumber(s) THEN [error |-> "none", value |-> << Number(s), 100 >>]
        ELSE [error |-> "ValueError", value |-> << 0, 1 >>]

NoLoan == [name |-> << >>, balance |-> << 0, 1 >>, apr |-> << 0, 1 >>, due_date |-> << >>]

\* LoanDetails(**data_dict): the keywords must be exactly the four aliases
\* (TypeError otherwise), then the converters run in field order.
LoanDetails(data_dict) ==
    IF DOMAIN data_dict # Aliases THEN [error |-> "TypeError", record |-> NoLoan]
    ELSE LET b == balance_to_float(data_dict[CurrentBalance])
             a == apr_to_float(data_dict[InterestRate])
         IN  IF b.error # "none" THEN [error |-> b.error, record |-> NoLoan]
             ELSE IF a.error # "none" THEN [error |-> a.error, record |-> NoLoan]
             ELSE [error |-> "none",
                   record |-> [name |-> data_dict[Loan], balance |-> b.value,
                               apr |-> a.value, due_date |-> data_dict[DueDate]]]

\* loans[key] = value
Put(d, key, value) ==
    [ k \in DOMAIN d \cup { key } |-> IF k = key THEN value ELSE d[k] ]

\* One pass of "for row in rows" of get_account_details: the cells are zipped
\* with the header as they come, and the record is built from the result.
loan_row ==
    /\ tstate = "loop"
    /\ Len(rows) < MaxRows
    /\ \E data_list \in LoanRows :
          LET data_dict == ZipDict(header_list, data_list)
              made      == LoanDetails(data_dict)
          IN  /\ rows' = Append(rows, data_list)
              /\ IF made.error # "none"
                   THEN tstate' = made.error /\ loans' = loans
                   ELSE tstate' = "loop" /\ loans' = Put(loans, data_dict[Loan], made.record)
    /\ UNCHANGED <<header_elem, data, siteVars, classVars>>

\* The body has no more rows: return loans.
return_loans ==
    /\ tstate = "loop"
    /\ tstate' = "returned"
    /\ UNCHANGED <<header_elem, rows, data, loans, siteVars, classVars>>

\* The row loop of get_account_details alone, from the header on.
InitLoans ==
    /\ Parked(HomePage)
    /\ ClassIdle
    /\ header_elem \in LoanHeaders
    /\ rows = << >>
    /\ data = << >>
    /\ tstate = "loop"
    /\ loans = << >>

NextLoans ==
    \/ loan_row
    \/ return_loans

SpecLoans == InitLoans /\ [][NextLoans]_vars

----------------------------------------------------------------------------
(* Properties of the classifier. *)

\* C3: classify is first-match-wins over the enumeration order: it returns
\* the earliest member whose distinguishing text occurs in the body text,
\* UNKNOWN when no member's text occurs, and always exactly one member.
C3_FirstMatchWins ==
    current_page # "none" =>
        /\ current_page \in Identities
        /\ \/ \E i \in 1..Len(CurrentPage) :
                /\ current_page = CurrentPage[i]
                /\ Contains(page_text, matching_text(CurrentPage[i]))
                /\ \A j \in 1..(i - 1) : ~Contains(page_text, matching_text(CurrentPage[j]))
           \/ /\ current_page = "UNKNOWN"
              /\ \A i \in 1..Len(CurrentPage) :
                    ~Contains(page_text, matching_text(CurrentPage[i]))

\* A text with the texts of two members in it, classified as the earlier one.
C3_Witness ==
    /\ current_page = "LOGIN_PAGE"
    /\ Contains(page_text, matching_text("EXPIRED"))

----------------------------------------------------------------------------
(* Properties of the login and navigation state machine. *)

NotLoggedInPages == { "EXPIRED", "LOGIN_PAGE", "HOME_PAGE" }

\* The members of the enumeration without a navigation-link label.
NoLabelTargets == { "GOV_DISCLAIMER", "ADDITIONAL_INFO", "UNKNOWN", "EXPIRED" }

Finished(name) == pc = "idle" /\ op.name = name /\ outcome # "none"

Checks(l) == { i \in 1..Len(l) : l[i].kind = "is_logged_in" }

\* The identity the last _is_logged_in of the call classified.
LastSeen(l) == l[Max(Checks(l))].elem.key

\* The known pages on which nobody is logged in, and the filler page.
UnauthenticatedPages == { "LOGIN_PAGE", "HOME_PAGE", "EXPIRED", "GOV_DISCLAIMER" }

\* C1, for the known pages it names: whenever _require_login returns without
\* raising, the page classified at that moment is not LOGIN_PAGE, HOME_PAGE,
\* EXPIRED or GOV_DISCLAIMER.  (The claim also excludes UNKNOWN, on which the
\* heuristics of _is_logged_in can answer True.)
C1_NeverReturnsUnauthenticated ==
    (Finished("require_login") /\ outcome = "returned")
        => get_current_page(body) \notin UnauthenticatedPages

\* C2: when the login check made after the credentials were submitted finds
\* the login page (credentials rejected) or the additional-information page
\* (verification failed), _require_login fails with LoginFailed (RuntimeError).
C2_LoginFailedIfNotAuthenticated ==
    ( /\ Finished("require_login")
      /\ \E i \in Checks(log) :
            /\ i = Max(Checks(log))
            /\ log[i].elem.key \in { "LOGIN_PAGE", "ADDITIONAL_INFO" }
            /\ \E j \in 1..(i - 1) : IsSubmit(log[j]) )
        => (outcome = "raised" /\ exc = "RuntimeError")

\* C4 as stated: two consecutive go_to_page calls with the same target that
\* both return click at most one navigation link in total.
C4_AtMostOneClickInTwoCalls ==
    ( /\ Finished("go_to_page") /\ outcome = "returned"
      /\ prev.name = "go_to_page" /\ prev.target = op.target )
        => prev.clicks + NavClicks(log) <= 1

\* C4 amended: a go_to_page entered on a page already classified as the
\* target clicks no link; so when the first of two consecutive calls with the
\* same target left the page classified as the target, the second one clicks
\* nothing and the two click at most one link in total.
C4_NoClickWhenOnTarget ==
    /\ (op.name = "go_to_page" /\ entry = op.target) => NavClicks(log) = 0
    /\ ( /\ Finished("go_to_page")
         /\ prev.name = "go_to_page" /\ prev.target = op.target
         /\ entry = op.target )
           => prev.clicks + NavClicks(log) <= 1

\* The second call of a pair was a no-op after the first one navigated.
C4_Witness ==
    /\ Finished("go_to_page") /\ outcome = "returned"
    /\ prev.name = "go_to_page" /\ prev.target = op.target /\ prev.clicks = 1
    /\ entry = op.target
    /\ NavClicks(log) = 0

\* C5: go_to_page to a member without a link label, from a page that is not
\* that member, fails with ConfigurationError (the ValueError of
\* CurrentPage.go_to_page) before any click or other browser action, and the
\* page is left as it was.
C5_NoLabelFailsBeforeAnyAction ==
    (op.name = "go_to_page" /\ op.target \in NoLabelTargets /\ entry # op.target) =>
        /\ log = << >>
        /\ get_current_page(body) = entry
        /\ pc \in { "go_to_page", "idle" }
        /\ pc = "idle" => (outcome = "raised" /\ exc = "ValueError: no link text")

\* go_to_page(EXPIRED) called on the disclaimer page has failed.
C5_Witness ==
    /\ Finished("go_to_page")
    /\ op.target = "EXPIRED" /\ entry = "GOV_DISCLAIMER"
    /\ exc = "ValueError: no link text"

\* C6: the login check fails with UnknownSessionState (ValueError "Unknown
\* login state.") only when the page classified as UNKNOWN and none of the
\* heuristic elements is there; for any other identity the identity alone
\* decides the result and no heuristic lookup is made.
C6_UnknownStateOnlyFromUnknown ==
    /\ exc = "ValueError: Unknown login state." =>
          /\ LastSeen(log) = "UNKNOWN"
          /\ dom \cap HeuristicElems = {}
    /\ \A i \in 1..Len(log) :
          log[i].kind = "find" =>
              \E j \in 1..(i - 1) :
                  /\ log[j] = Event("is_logged_in", Seen("UNKNOWN"))
                  /\ \A k \in (j + 1)..(i - 1) : log[k].kind = "find"
    /\ (pc \in { "require_login_checked", "require_login_final" }
            /\ LastSeen(log) # "UNKNOWN")
          => loggedIn = (LastSeen(log) \notin NotLoggedInPages)

\* The check has failed on an unknown page, and has decided a known one
\* without a lookup.
C6_Witness ==
    /\ Finished("require_login")
    /\ exc = "ValueError: Unknown login state."
    /\ Len(log) = 1 + Len(HeuristicOrder)

----------------------------------------------------------------------------
(* Properties of the table extractor. *)

NCols == Len(header_list)

Failed == tstate \in { "ValueError", "AssertionError" }

\* The rows the loop body has run on to its end (a row that raised has not).
Processed == IF Failed THEN Len(rows) - 1 ELSE Len(rows)

AllEmpty(r, from, to) == \A i \in from..to : r[i] = ""

\* What alignment as the claims describe it removes from an over-long row:
\* leading empty cells as long as there are any and the row is too long,
\* then trailing cells.
Excess(r) == Len(r) - NCols
Leading(r) == Max({ k \in 0..Len(r) : AllEmpty(r, 1, k) })
FromFront(r) == IF Leading(r) < Excess(r) THEN Leading(r) ELSE Excess(r)
FromBack(r) == Excess(r) - FromFront(r)

\* The trailing cells to remove are all empty.
Alignable(r) == AllEmpty(r, Len(r) - FromBack(r) + 1, Len(r))

Aligned(r) == SubSeq(r, FromFront(r) + 1, Len(r) - FromBack(r))

\* The last position of a column name in the header.
LastPos(h) == Max({ i \in 1..NCols : header_list[i] = h })

\* The step has read an over-long row that alignment can bring to the header's length.
ReadsAlignable(r) ==
    /\ tstate = "loop"
    /\ rows' = Append(rows, r)
    /\ Len(r) > NCols
    /\ Alignable(r)

\* C7 as stated: an over-long row is aligned by removing empty cells, the
\* leading one first, and the aligned cells are then appended to the columns
\* position by position in header order.
C7_AlignedCellsAssignedInOrder ==
    [][ \A r \in BodyRows :
            ReadsAlignable(r) =>
                /\ tstate' = "loop"
                /\ \A i \in 1..NCols :
                      data'[header_list[i]] = Append(data[header_list[i]], Aligned(r)[i])
      ]_vars

\* C7 amended: the same alignment; the aligned row is skipped when it is the
\* single cell [''] (a one-column header), and otherwise each column name
\* gets the aligned cell at the last header position that bears the name
\* (position i for a name that occurs once).
C7_AlignedCellsAssignedByName ==
    [][ \A r \in BodyRows :
            ReadsAlignable(r) =>
                /\ tstate' = "loop"
                /\ IF Aligned(r) = << "" >>
                     THEN data' = data
                     ELSE /\ DOMAIN data' = ColumnNames(header_list)
                          /\ \A h \in ColumnNames(header_list) :
                                data'[h] = Append(data[h], Aligned(r)[LastPos(h)])
      ]_vars

\* Header [A, B] and the row ['', '', 'x']: the leading cell went, A = [''], B = ['x'].
C7_Witness ==
    /\ tstate = "loop"
    /\ header_list = << << "A" >>, << "B" >> >>
    /\ rows = << << "", "", "x" >> >>
    /\ data[<< "A" >>] = << "" >>
    /\ data[<< "B" >>] = << "x" >>

\* A row that cannot be brought to the header's length: too long with
\* nothing empty left to remove at either end, or too short.
TooLong(r) == Len(r) > NCols /\ ~Alignable(r)
TooShort(r) == Len(r) < NCols

\* C8: extract fails with RowAlignmentError (the ValueError of the alignment
\* loop, or the failed assertion on the length) and returns no table whenever
\* some body row other than a spacer row cannot be brought to the header's length.
C8_MisalignedRowFails ==
    \A k \in 1..Len(rows) :
        rows[k] # << "" >> =>
            /\ TooLong(rows[k]) => (k = Len(rows) /\ tstate = "ValueError")
            /\ TooShort(rows[k]) => (k = Len(rows) /\ tstate = "AssertionError")

\* A good row, then a row of two cells, neither empty, under a one-column header.
C8_Witness ==
    /\ tstate = "ValueError"
    /\ NCols = 1
    /\ rows = << << "x" >>, << "x", "x" >> >>

\* C9: a body row that is a single empty cell is skipped: no error, and
\* nothing appended to any column, whatever the number of header columns.
C9_SpacerRowSkipped ==
    [][ (tstate = "loop" /\ rows' = Append(rows, << "" >>))
            => (tstate' = "loop" /\ data' = data) ]_vars

\* A spacer row went by after a row of values under a two-column header.
C9_Witness ==
    /\ tstate = "loop"
    /\ NCols = 2
    /\ Len(rows) = 2
    /\ rows[2] = << "" >>
    /\ \A h \in DOMAIN data : Len(data[h]) = 1

\* The rows the extractor skips: the single empty cell, and a row that
\* alignment reduces to it (all cells empty, under a one-column header).
Skipped(r) ==
    \/ r = << "" >>
    \/ NCols = 1 /\ Len(r) >= 1 /\ AllEmpty(r, 1, Len(r))

Kept == { k \in 1..Processed : ~Skipped(rows[k]) }

\* The i-th row that was not skipped.
NthKept(i) == rows[CHOOSE k \in Kept : Cardinality({ j \in Kept : j <= k }) = i]

\* C10: after every row, and in the table returned, every column has as many
\* values as rows were processed and not skipped, and the i-th value of each
\* column is the cell of the i-th such row at the column's (last) header
\* position, counted from where the aligned row starts; also when header
\* names repeat.
C10_ColumnsEqualLengthInRowOrder ==
    /\ DOMAIN data = ColumnNames(header_list)
    /\ \A h \in DOMAIN data : Len(data[h]) = Cardinality(Kept)
    /\ \A i \in 1..Cardinality(Kept) :
          LET r == NthKept(i)
          IN  \E d \in 0..(Len(r) - NCols) :
                 \A h \in DOMAIN data : data[h][i] = r[d + LastPos(h)]

\* Two rows kept after a spacer row, under a header that names a column twice.
C10_Witness ==
    /\ tstate = "returned"
    /\ NCols = 2
    /\ header_list[1] = header_list[2]
    /\ Len(rows) = 2
    /\ data[header_list[1]] = << "x", "" >>

----------------------------------------------------------------------------
(* Properties of get_account_details. *)

LoanErrors == { "TypeError", "InvalidOperation", "ValueError" }

\* C11: in get_account_details every body row whose cell count differs from
\* the header's (more cells or fewer) makes the call fail: it is the last row
\* read and the loop ended with an exception; no such row is dropped or
\* truncated into a LoanDetails record.
C11_WrongLengthRowFails ==
    \A k \in 1..Len(rows) :
        Len(rows[k]) # NCols => (k = Len(rows) /\ tstate \in LoanErrors)

----------------------------------------------------------------------------
(* Properties of the life cycle of the browser session. *)

\* C12: the controller supports scoped acquisition: a with statement on a
\* newly constructed controller enters its body with the controller bound
\* (it does not fail on entry), and the browser session is not quit while
\* the scope is open.
C12_ScopeYieldsController ==
    /\ scope # "TypeError"
    /\ scope = "entered" => driver = "running"

----------------------------------------------------------------------------
(* Properties of the filler steps around a navigation. *)

OnDisclaimer(text) == get_current_page(text) = "GOV_DISCLAIMER"

\* C13: the disclaimer is acknowledged before and after every navigation:
\* go_to_page never clicks a navigation link (here: one found by a label that
\* is not empty) while the page is classified GOV_DISCLAIMER, and its filler
\* steps do not end normally on a page classified GOV_DISCLAIMER.
C13_DisclaimerAcknowledgedAroundClick ==
    [][ /\ ( /\ pc = "go_to_page"
              /\ NavClicks(log') = NavClicks(log) + 1
              /\ LinkLabel(Target) # "" )
              => ~OnDisclaimer(body)
        /\ (pc = "do_filler_steps" /\ pc' # "do_filler_steps" /\ outcome' # "raised")
              => ~OnDisclaimer(body')
      ]_vars

\* C14: whenever go_to_page returns normally, to the caller or to
\* _require_login, after a navigation or as a no-op, the page classified at
\* that moment is not GOV_DISCLAIMER.
C14_ReturnsOffDisclaimer ==
    /\ (Finished("go_to_page") /\ outcome = "returned") => ~OnDisclaimer(body)
    /\ pc = "require_login_fill" => ~OnDisclaimer(body)

\* A go_to_page that clicked its link and then acknowledged the disclaimer
\* twice has returned.
C14_Witness ==
    /\ Finished("go_to_page") /\ outcome = "returned"
    /\ NavClicks(log) = 1
    /\ Accepts(log) = 2

----------------------------------------------------------------------------
(* Properties of _require_login. *)

\* The identities of the account pages.
AccountPages == { "ACCOUNT_SUMMARY", "ACCOUNT_HISTORY", "LOAN_DETAILS" }

IsClick(ev) == ev.kind = "click"
IsInput(ev) == ev.kind = "send_keys"

\* C15: a _require_login entered on a page classified ACCOUNT_SUMMARY,
\* ACCOUNT_HISTORY or LOAN_DETAILS returns at once: every step of the call
\* leaves the page as it is, the call clicks nothing and types nothing, goes
\* through the login check only, and does not raise.
C15_ReturnsAtOnceOnAccountPages ==
    [][ (op'.name = "require_login" /\ entry' \in AccountPages) =>
            /\ body' = body /\ dom' = dom
            /\ Count(log', IsClick) = 0 /\ Count(log', IsInput) = 0
            /\ pc' \in { "is_logged_in", "require_login_checked", "idle" }
            /\ pc' = "idle" => outcome' = "returned"
      ]_vars

\* _require_login has returned on the loan-details page it was entered on.
C15_Witness ==
    /\ Finished("require_login") /\ outcome = "returned"
    /\ entry = "LOAN_DETAILS"
    /\ get_current_page(body) = "LOAN_DETAILS"
    /\ Len(log) = 1

IsPrefix(a, b) == Len(a) <= Len(b) /\ SubSeq(b, 1, Len(a)) = a

\* The steps of the login sequence among the events of a call: link clicks,
\* typing, submits and the classification after the first submit.
IsLoginStep(ev) ==
    \/ IsNavClick(ev) \/ IsSubmit(ev) \/ IsInput(ev)
    \/ ev.kind = "get_current_page"

LoginSteps(l) == SelectSeq(l, IsLoginStep)

\* The login sequence from a page of identity e when the classification
\* after the first submit is c.
LoginSequence(e, c) ==
    (IF e = "LOGIN_PAGE" THEN << >> ELSE << Event("click", Link("Log in")) >>)
    \o << Event("send_keys", Id("user-id")), Event("send_keys", Id("password")),
          Event("click", Id("Submit")), Event("get_current_page", Seen(c)) >>
    \o (IF c = "ADDITIONAL_INFO"
          THEN << Event("send_keys", Id("lblSSN1")), Event("send_keys", Id("dob1")),
                  Event("click", Id("Submit")) >>
          ELSE << >>)

\* The call has come to its second login check.
AtFinalCheck ==
    \/ pc = "require_login_final"
    \/ pc = "idle" /\ (outcome = "returned" \/ exc = "RuntimeError")

\* C16: in a _require_login entered on LOGIN_PAGE, HOME_PAGE or EXPIRED the
\* steps come in this order: the "Log in" link (unless the page is the login
\* page already), user-id, password, submit, classification; then SSN, date
\* of birth and a second submit exactly when that classification is
\* ADDITIONAL_INFO, never earlier; the login check opens the call and the
\* second check comes after all of these.
C16_LoginStepsInOrder ==
    (op.name = "require_login" /\ entry \in NotLoggedInPages) =>
        /\ log # << >> => log[1] = Event("is_logged_in", Seen(entry))
        /\ \E c \in Identities : IsPrefix(LoginSteps(log), LoginSequence(entry, c))
        /\ AtFinalCheck =>
              /\ \E c \in Identities : LoginSteps(log) = LoginSequence(entry, c)
              /\ Cardinality(Checks(log)) = 2
              /\ \A i \in 1..Len(log) : IsLoginStep(log[i]) => i < Max(Checks(log))

\* From the home page: link, credentials, the additional-information form,
\* and the second check has let the call return.
C16_Witness ==
    /\ Finished("require_login") /\ outcome = "returned"
    /\ entry = "HOME_PAGE"
    /\ LoginSteps(log) = LoginSequence("HOME_PAGE", "ADDITIONAL_INFO")

Typed(l, i) == Count(l, LAMBDA ev : ev = Event("send_keys", Id(i)))

\* C17: no retries in _require_login: user-id, password, SSN and date of
\* birth are each typed at most once, the credentials form is submitted at
\* most once and the additional-information form at most once; and once a
\* step has raised, the exception is with the caller (nothing of the call is
\* left to run) and the call makes no further browser action.
C17_NoRetries ==
    [][ op'.name = "require_login" =>
          /\ \A i \in { "user-id", "password", "lblSSN1", "dob1" } : Typed(log', i) <= 1
          /\ Count(log', IsSubmit) <= 1 + Typed(log', "dob1")
          /\ NavClicks(log') <= 1
          /\ outcome' = "raised" => (pc' = "idle" /\ stack' = << >>)
          /\ (outcome = "raised" /\ outcome' = "raised") =>
                (log' = log /\ body' = body /\ dom' = dom)
      ]_vars

\* Both forms were submitted, the second check found no login, and the call
\* has failed with RuntimeError.
C17_Witness ==
    /\ Finished("require_login")
    /\ exc = "RuntimeError"
    /\ Count(log, IsSubmit) = 2

----------------------------------------------------------------------------
(* Properties of get_transactions. *)

IsCheck(ev) == ev.kind = "is_logged_in"

Positions(l, P(_)) == { i \in 1..Len(l) : P(l[i]) }

\* The selections of the call in op, as the events they leave.
ExpectedSelects ==
    [ k \in 1..3 |->
        Event("select", Option(Selections(op.target)[k].id, Selections(op.target)[k].text)) ]

\* The three selections are made in the order history type, loan, date
\* range, with the caller's loan name, each right after the wait for its own
\* drop-down; every login check and every click comes before the first of
\* them; and the table is read once, last, after the three.
SelectionsThenTable(l) ==
    /\ SelectSeq(l, IsSelect) = ExpectedSelects
    /\ \A i \in Positions(l, IsSelect) :
          /\ i > 2
          /\ l[i - 1] = Event("wait", Id(l[i].elem.tag))
          /\ l[i - 2] = Event("find_element", Id(l[i].elem.tag))
    /\ \A i \in Positions(l, IsSelect), j \in Positions(l, IsCheck) \cup Positions(l, IsClick) :
          j < i
    /\ l[Len(l)] = Event("read_table", Id("tblByLoans"))
    /\ Count(l, LAMBDA ev : ev.kind = "read_table") = 1

\* The click on the account history link of the recent payments section.
ViaRecentPayments(l) ==
    { i \in 2..Len(l) :
        /\ l[i] = Event("click", Link("Account History"))
        /\ l[i - 1] = Event("find_element", Id("divRecentPayments")) }

ReturnedTable == Finished("get_transactions") /\ outcome = "returned"

----------------------------------------------------------------------------
(* Properties of the heuristics of _is_logged_in. *)

\* The first login check of a _require_login entered on a page classified
\* UNKNOWN is over: it has answered, or it has raised.
FirstCheckOnUnknownDone ==
    /\ op.name = "require_login" /\ entry = "UNKNOWN"
    /\ Cardinality(Checks(log)) = 1
    /\ pc = "require_login_checked" \/ exc = "ValueError: Unknown login state."

\* C19: on a page classified UNKNOWN the login check depends only on which
\* of the four elements exist, in a fixed precedence: a "Log in" link means
\* not logged in, also beside an "Account Summary" link; else an "Account
\* Summary" link means logged in, also beside a user-id or account-number
\* element; else one of these two elements means not logged in; else the
\* check raises.  The lookups stop at the first rule that applies.
C19_HeuristicPrecedence ==
    FirstCheckOnUnknownDone =>
        LET answered(v, lookups) ==
                pc = "require_login_checked" /\ loggedIn = v /\ Len(log) = 1 + lookups
        IN  IF Link("Log in") \in dom THEN answered(FALSE, 1)
            ELSE IF Link("Account Summary") \in dom THEN answered(TRUE, 2)
            ELSE IF Id("user-id") \in dom THEN answered(FALSE, 3)
            ELSE IF Id("account-number") \in dom THEN answered(FALSE, 4)
            ELSE pc = "idle" /\ outcome = "raised" /\ Len(log) = 5

\* All four elements are on the page, and the check has answered False
\* after one lookup.
C19_Witness ==
    /\ FirstCheckOnUnknownDone
    /\ dom = HeuristicElems
    /\ ~loggedIn
    /\ Len(log) = 2

----------------------------------------------------------------------------
(* Properties of _do_filler_steps. *)

InFiller == pc = "do_filler_steps"

\* C20: every pass of the filler loop on a page classified GOV_DISCLAIMER
\* clicks Accept exactly once and tests the page again (or fails to find the
\* button and raises, with no click); a pass on any other page ends the loop
\* with no click, no exception and the page unchanged, so that a loop
\* entered off the disclaimer clicks nothing.  With a site that stops showing
\* the disclaimer after some acknowledgement, the loop terminates.
C20_FillerClicksOncePerDisclaimer ==
    /\ [][ InFiller =>
              IF OnDisclaimer(body)
                THEN \/ /\ log' = Append(log, Event("click", Id("Accept")))
                        /\ InFiller'
                     \/ /\ Id("Accept") \notin dom
                        /\ log' = log /\ body' = body /\ dom' = dom
                        /\ pc' = "idle" /\ exc' = "NoSuchElementException"
                ELSE /\ log' = log /\ body' = body /\ dom' = dom
                     /\ ~InFiller' /\ exc' = exc /\ outcome' # "raised"
         ]_vars
    /\ InFiller ~> ~InFiller

\* The loop has ended on another page after two acknowledgements.
C20_Witness ==
    /\ Finished("go_to_page") /\ outcome = "returned"
    /\ entry = "GOV_DISCLAIMER"
    /\ Len(log) = 2
    /\ Accepts(log) = 2

====
